---- MODULE Spec2Model ----
(***************************************************************************)
(* Verification model of the gateway supervision engine of                 *)
(* diploi/starter-openclaw.                                                *)
(*                                                                         *)
(* The lifecycle engine is createGatewayManager (src/unnamed/part_003).    *)
(* The engine runs on one JavaScript event loop: code between two awaits   *)
(* is one atomic step, promise continuations (microtasks) run before the   *)
(* next timer or I/O event, and every await on a timer, a socket or a      *)
(* child process is a point where any other event may be handled first.    *)
(* Each action below is one such synchronous segment.                      *)
(*                                                                         *)
(* Abstractions: pids are 1..MaxPid, allocated in order (each stands for a *)
(* real pid > 1); 0 stands for null.  Wall-clock time is abstracted: a     *)
(* timeout may fire whenever the awaited condition has not happened.       *)
(***************************************************************************)
EXTENDS Integers, Sequences, FiniteSets, TLC

\* ---- bounds of the model ------------------------------------------------
MaxPid == 3        \* processes spawned over a run
MaxCalls == 3      \* requests over a run: API invocations and supervisor crashes
NCallers == 2      \* concurrently suspended callers
NLoops == 2        \* overlapping runs of the process manager's loop()
MaxRestarts == 32  \* restartCount of the engines the backoff is checked on

NoPid == 0
ExtOwner == 0 - 1  \* listener value: a gateway this engine never spawned
Pids == 1..MaxPid
Callers == 1..NCallers
StopCallers == 1..(NCallers + 1)   \* callers where only start and stop are called
Loops == 1..NLoops
Stopper == 0       \* microtask id of the stop() IIFE

VARIABLES
  \* operating system
  ps,            \* [Pids -> "none" | "alive" | "zombie" | "gone"]
  listener,      \* pid accepting connections on host:port, NoPid, or ExtOwner
  children,      \* pids whose parent is the current supervisor process
  watched,       \* pids with the engine's 'exit' observer registered
  primaryInstalled, \* is the "openclaw" launcher on PATH
  \* persisted DesiredState file
  persisted,     \* [desired, pid]
  disk,          \* [writable, intended]: can the file be written, and
                 \*   the record it would hold had every write succeeded
  client,        \* the file-based client: [op, pc, res, probing]
  peer,          \* a second supervisor process inside updatePersistedState:
                 \*   [pc, cur] (cur: the record it has read)
  \* engine memory (closure variables of createGatewayManager)
  up, desired, proc, starting, stopPromise, stopping, state, readyAt,
  restartCount, lastError, adoptedPid, lastExit,
  timers,        \* pending restart timers (setTimeout(() => void start()))
  \* suspended coroutines
  call,          \* [Callers -> [op, pc, attempt, by, rd, lock]]
  starter,       \* the start() IIFE: [pc, existingPid, p]
  stopper,       \* the stop() IIFE: [pc, targetPid, pid]
  stopWaiters, startWaiters,  \* callers awaiting stopPromise / starting
  microtasks,    \* continuations that run before the next event
  \* history (not program state)
  calls,         \* requests made so far
  lastRequest,   \* the operator's latest start/stop request: "running" |
                 \*   "stopped" ("running", the default of line 19, before any)
  spawns,        \* processes created so far (the next pid is spawns + 1)
  ev,            \* what the latest step did: [sent, over, spawned, ret, res,
                 \*   backoff, ended, reap] (ended: the record of the stop
                 \*   it ended; reap: the zombie recovery's finding)
  recov,         \* crash-recovery scenario: [pid, st, adopted, spawned]
  cycle,         \* the stop in flight: stop command runs, signals sent, and
                 \*   whether it was called in state 'stopped' (fromStopped);
                 \*   signalled: the pid the latest stop, now over, signalled
  disturbed,     \* a stop request, a crash or a process death has happened
  \* the process manager (src/unnamed/part_001, main): a program of its own
  pm             \* [control, proc, status, restartCount, observed, loop,
                 \*  phase, cycle, handler] (handler: the run of
                 \*  stopChild() the SIGTERM/SIGINT handler awaits, or 0)

vars == <<ps, listener, children, watched, primaryInstalled, persisted, disk,
          peer, client,
          up, desired, proc, starting, stopPromise, stopping, state, readyAt,
          restartCount, lastError, adoptedPid, lastExit, timers,
          call, starter, stopper, stopWaiters, startWaiters, microtasks,
          calls, lastRequest, spawns, ev, recov, cycle, disturbed, pm>>

\* The whole state as one record, so that a code segment is a function on it.
World ==
  [ps |-> ps, listener |-> listener, children |-> children, watched |-> watched,
   primaryInstalled |-> primaryInstalled, persisted |-> persisted,
   disk |-> disk, peer |-> peer, client |-> client,
   up |-> up, desired |-> desired, proc |-> proc, starting |-> starting,
   stopPromise |-> stopPromise, stopping |-> stopping, state |-> state,
   readyAt |-> readyAt, restartCount |-> restartCount, lastError |-> lastError,
   adoptedPid |-> adoptedPid, lastExit |-> lastExit, timers |-> timers,
   call |-> call, starter |-> starter, stopper |-> stopper,
   stopWaiters |-> stopWaiters, startWaiters |-> startWaiters,
   microtasks |-> microtasks,
   calls |-> calls, lastRequest |-> lastRequest, spawns |-> spawns,
   ev |-> ev, recov |-> recov, cycle |-> cycle,
   disturbed |-> disturbed, pm |-> pm]

Apply(w) ==
  /\ ps' = w.ps /\ listener' = w.listener /\ children' = w.children
  /\ watched' = w.watched /\ primaryInstalled' = w.primaryInstalled
  /\ persisted' = w.persisted /\ disk' = w.disk /\ peer' = w.peer
  /\ client' = w.client
  /\ up' = w.up /\ desired' = w.desired /\ proc' = w.proc
  /\ starting' = w.starting /\ stopPromise' = w.stopPromise
  /\ stopping' = w.stopping /\ state' = w.state /\ readyAt' = w.readyAt
  /\ restartCount' = w.restartCount /\ lastError' = w.lastError
  /\ adoptedPid' = w.adoptedPid /\ lastExit' = w.lastExit /\ timers' = w.timers
  /\ call' = w.call /\ starter' = w.starter /\ stopper' = w.stopper
  /\ stopWaiters' = w.stopWaiters /\ startWaiters' = w.startWaiters
  /\ microtasks' = w.microtasks
  /\ calls' = w.calls /\ lastRequest' = w.lastRequest /\ spawns' = w.spawns
  /\ ev' = w.ev /\ recov' = w.recov /\ cycle' = w.cycle
  /\ disturbed' = w.disturbed
  /\ pm' = w.pm

\* A caller's record.  op, pc, attempt are the coroutine; the rest is history:
\* by (API or timer), rd (the persisted desired value that ensureRunning read
\* at line 532, "none" before that), lock (ensureRunning's latest failed
\* readiness wait looked like lock contention, lines 556-560).  When a call
\* returns, its record (with the pc it returned from: "entry" when it never
\* suspended) is kept in ev.ret.
CallIdle == [op |-> "none", pc |-> "idle", attempt |-> 0, by |-> "none",
             rd |-> "none", lock |-> FALSE]
NoDelay == 0        \* ev.backoff when the step scheduled no restart
CycleIdle == [cmds |-> 0, terms |-> 0, kills |-> 0, fromStopped |-> FALSE,
              signalled |-> NoPid]
EvNone == [sent |-> {}, over |-> NoPid, spawned |-> FALSE, ret |-> CallIdle,
           res |-> "none", backoff |-> NoDelay, ended |-> CycleIdle,
           reap |-> "none"]
ClientIdle == [op |-> "none", pc |-> "idle", res |-> "none", probing |-> FALSE]
RecovNone == [pid |-> NoPid, st |-> "none", adopted |-> FALSE, spawned |-> FALSE]
StarterIdle == [pc |-> "idle", existingPid |-> NoPid, p |-> NoPid]
StopperIdle == [pc |-> "idle", targetPid |-> NoPid, pid |-> NoPid]

\* ---- Process Table Inspector --------------------------------------------
getProcState(w, pid) ==
  IF pid = NoPid THEN "null"
  ELSE IF w.ps[pid] = "alive" THEN "S"
  ELSE IF w.ps[pid] = "zombie" THEN "Z"
  ELSE "null"

isPidRunning(w, pid) ==
  IF pid = NoPid THEN FALSE
  ELSE IF getProcState(w, pid) = "Z" THEN FALSE
  ELSE w.ps[pid] = "alive"

pidExists(w, pid) == getProcState(w, pid) # "null"

\* ---- Readiness Prober ---------------------------------------------------
canConnect(w) == w.listener # NoPid

\* ---- Persisted State Store ----------------------------------------------
defaultPersistedState == [desired |-> "running", pid |-> NoPid]

readPersistedState(w) == w.persisted

Patched(cur, patch) ==
  [desired |-> IF "desired" \in DOMAIN patch THEN patch.desired
               ELSE cur.desired,
   pid |-> IF "pid" \in DOMAIN patch THEN patch.pid ELSE cur.pid]

\* writeFileSync throws when the file cannot be written; the catch of line 50
\* swallows it and the file keeps its content.
writePersistedState(w, next) ==
  IF w.disk.writable THEN [w EXCEPT !.persisted = next] ELSE w

updatePersistedState(w, patch) ==
  [writePersistedState(w, Patched(readPersistedState(w), patch))
     EXCEPT !.disk.intended = Patched(@, patch)]

clearPersistedPid(w) == updatePersistedState(w, [pid |-> NoPid])

\* clearPersistedPid() run by a second supervisor process.  Within one
\* process the read of line 56 and the write of line 57 are one synchronous
\* piece of code; between two processes they are two system calls, and the
\* other process can write the file in between.
PeerIdle == [pc |-> "idle", cur |-> defaultPersistedState]

peerReadPersistedState(w) ==
  [w EXCEPT !.peer = [pc |-> "read", cur |-> readPersistedState(w)]]

peerWritePersistedState(w) ==
  [writePersistedState(w, Patched(w.peer.cur, [pid |-> NoPid]))
     EXCEPT !.disk.intended = Patched(@, [pid |-> NoPid]),
            !.peer = PeerIdle]

\* ---- operating system ----------------------------------------------------
ParentOfZombie == 0 - 2   \* signal target: the parent process of a zombie

\* process.kill(pid, sig) / process.kill(-pid, sig).  SIGKILL ends a live
\* process at once; after SIGTERM the process exits when it chooses to (the
\* action ProcessDies), or never.  A dead process stays a zombie until its
\* parent reaps it.
Kill(w, pid, sig) ==
  LET w1 == [w EXCEPT !.ev.sent = @ \cup {<<pid, sig>>}]
  IN IF pid \in Pids /\ w.ps[pid] = "alive" /\ sig = "SIGKILL"
     THEN [w1 EXCEPT !.ps[pid] = "zombie",
                     !.listener = IF @ = pid THEN NoPid ELSE @]
     ELSE w1

\* childProcess.spawn of a gateway: a new child of the supervisor.
SpawnProcess(w) ==
  LET p == w.spawns + 1
  IN IF p \in Pids
     THEN [w EXCEPT !.ps[p] = "alive", !.children = @ \cup {p}, !.spawns = p,
                    !.ev.spawned = TRUE,
                    !.recov.spawned = @ \/ w.recov.st = "ensuring"]
     ELSE [w EXCEPT !.spawns = p]       \* out of model pids: step is disabled

\* Outcome of the companion command "openclaw gateway stop":
\*   "stopped"     exit 0: it stopped the gateway that answered on the port;
\*   "notRunning"  exit 0 or output "not running": it found nothing to stop;
\*   "fail"        any other exit (not installed, error): the call throws.
StopOutcomes == {"stopped", "notRunning", "fail"}

runOpenclawGatewayStop(w, outcome) ==
  IF outcome = "stopped" /\ w.listener \in Pids
  THEN [w EXCEPT !.ps[w.listener] = "zombie", !.listener = NoPid]
  ELSE IF outcome = "stopped" THEN [w EXCEPT !.listener = NoPid]
  ELSE w

\* ---- zombie recovery and best-effort kill -------------------------------
ParentKinds == {"unknown", "other", "allowed"}

\* Fault seeded for C32: the recovery without the allow-list test of lines
\* 391-393; only an unknown parent is spared.
reapZombieAnyParent(w, zombiePid, par) ==
  IF getProcState(w, zombiePid) # "Z" THEN w
  ELSE IF par = "unknown" THEN [w EXCEPT !.ev.reap = par]
  ELSE [w EXCEPT !.ev.reap = par,
                 !.ev.sent = @ \cup {<<ParentOfZombie, "SIGTERM">>}]

\* par: what /proc says of the zombie's parent ("unknown": no ppid or ppid <= 1,
\* "other": command name off the allow-list, "allowed": openclaw or node).
\* Whether the zombie is reaped afterwards is up to its parent and init (the
\* actions OrphanReaped and ChildExit).
\* ev.reap records what the recovery found of the parent; with a parent that
\* is unknown or off the list it returns false and has done nothing.
reapZombieByKillingParentBestEffort(w, zombiePid, par) ==
  IF getProcState(w, zombiePid) # "Z" THEN w
  ELSE IF par # "allowed" THEN [w EXCEPT !.ev.reap = par]
  ELSE [w EXCEPT !.ev.reap = par,
                 !.ev.sent = @ \cup {<<ParentOfZombie, "SIGTERM">>}]

\* Fault seeded for C6: cleanupPidBestEffort and killPidBestEffort without
\* their zombie checks (lines 329 and 360), so a zombie is signalled.
cleanupPidBestEffortBeginNoZombieCheck(w, pid, par) ==
  <<Kill(w, pid, "SIGTERM"), "ck_wait">>

\* cleanupPidBestEffort up to its first wait; the result is <<world, pc>>.
cleanupPidBestEffortBegin(w, pid, par) ==
  IF getProcState(w, pid) = "Z"
  THEN <<reapZombieByKillingParentBestEffort(w, pid, par), "cz_wait">>
  ELSE <<Kill(w, pid, "SIGTERM"), "ck_wait">>

\* killPidBestEffort after waitForPidExit, and the zombie check that follows.
cleanupPidBestEffortAfterWait(w, pid, par) ==
  LET w1 == IF isPidRunning(w, pid) THEN Kill(w, pid, "SIGKILL") ELSE w
  IN IF getProcState(w1, pid) = "Z"
     THEN <<reapZombieByKillingParentBestEffort(w1, pid, par), "cz_wait">>
     ELSE <<w1, "cleaned">>

\* ---- getStatus() (lines 314-323): the fields the claims speak of ---------
getStatus(w) ==
  [state |-> w.state,
   pid |-> IF w.proc # NoPid THEN w.proc ELSE w.adoptedPid,
   readyAt |-> w.readyAt, restartCount |-> w.restartCount,
   lastExit |-> w.lastExit, lastError |-> w.lastError]

\* ---- exit observer (p.on('exit')) ---------------------------------------
Min(a, b) == IF a <= b THEN a ELSE b

\* Fault seeded for C14: the delay without its cap.
backoffMsNoCap(k) == 500 * k

\* The delay of the restart after the k-th unplanned exit (line 516), in ms.
backoffMs(k) == Min(15000, 500 * k)

\* The observer schedules start() after backoffMs (ev.backoff is that delay;
\* timers counts the restarts scheduled and not yet fired).
ExitObserver(w) ==
  LET w1 == clearPersistedPid(
              [w EXCEPT !.lastExit = TRUE,
                        !.proc = NoPid, !.adoptedPid = NoPid,
                        !.readyAt = FALSE, !.state = "stopped"])
  IN IF w.desired /\ ~w.stopping
     THEN [w1 EXCEPT !.restartCount = @ + 1, !.timers = @ + 1,
                     !.ev.backoff = backoffMs(w.restartCount + 1)]
     ELSE w1

\* ---- callers -------------------------------------------------------------
\* An API call (or a timer's call) returns or throws: its slot is free again.
Return(w, c, res) ==
  [w EXCEPT !.call[c] = CallIdle,
            !.ev.ret = w.call[c], !.ev.res = res,
            !.recov.st = IF @ = "ensuring" /\ w.call[c].op = "ensure"
                         THEN "returned" ELSE @]

\* ---- start() ------------------------------------------------------------
\* spawnOnce(primary...): without the launcher on PATH the spawn fails with
\* ENOENT, no process exists and p.exitCode is set before the 200 ms check.
SpawnPrimary(w) ==
  IF w.primaryInstalled
  THEN LET w1 == SpawnProcess(w)
       IN [w1 EXCEPT !.starter = [@ EXCEPT !.pc = "sleep200", !.p = w1.spawns],
                     !.ev.over = IF isPidRunning(w, w.starter.existingPid)
                                 THEN w.starter.existingPid ELSE @]
  ELSE [w EXCEPT !.starter = [@ EXCEPT !.pc = "sleep200", !.p = NoPid]]

\* After the persisted pid was dealt with: clearPersistedPid(), then spawn.
StartSpawn(w) == SpawnPrimary(clearPersistedPid(w))

\* The start IIFE from its first line to its first await.
StartAttemptBegin(w) ==
  LET w1 == [w EXCEPT !.state = "starting", !.lastError = "null",
                      !.readyAt = FALSE, !.starting = TRUE]
      existingPid == readPersistedState(w1).pid
  IN IF existingPid # NoPid
     THEN [w1 EXCEPT !.starter = [pc |-> "gwstop", existingPid |-> existingPid,
                                  p |-> NoPid]]
     ELSE SpawnPrimary(w1)

\* start() returns to its caller: an API caller or timer is done,
\* ensureRunning goes on to waitForReady.
StartReturn(w, c) ==
  IF w.call[c].op = "ensure"
  THEN [w EXCEPT !.call[c].pc = "e_ready"]
  ELSE Return(w, c, "ok")

\* start() from "if (starting)" on.
StartAfterStop(w, c) ==
  LET w1 == IF w.starting THEN w ELSE StartAttemptBegin(w)
  IN [w1 EXCEPT !.call[c].pc = "s_awaitStarting",
                !.startWaiters = Append(@, c)]

\* Fault seeded for C4: start() without "if (proc) return" (line 434).
StartEntryNoHeldCheck(w, c) ==
  LET w1 == updatePersistedState([w EXCEPT !.desired = TRUE],
                                 [desired |-> "running"])
  IN IF w1.stopPromise
     THEN [w1 EXCEPT !.call[c].pc = "s_awaitStop",
                     !.stopWaiters = Append(@, c)]
     ELSE StartAfterStop(w1, c)

\* start() from its first line to its first await (or its return).
StartEntry(w, c) ==
  LET w1 == updatePersistedState([w EXCEPT !.desired = TRUE],
                                 [desired |-> "running"])
  IN IF w1.proc # NoPid THEN StartReturn(w1, c)
     ELSE IF w1.stopPromise
     THEN [w1 EXCEPT !.call[c].pc = "s_awaitStop",
                     !.stopWaiters = Append(@, c)]
     ELSE StartAfterStop(w1, c)

\* The start IIFE after "await sleep(200)" to its end, and the .finally.
StartAttemptFinish(w) ==
  LET p0 == w.starter.p
      exited == p0 = NoPid \/ w.ps[p0] = "gone"
      w1 == IF exited
            THEN [SpawnProcess(w) EXCEPT
                    !.ev.over = IF isPidRunning(w, w.starter.existingPid)
                                THEN w.starter.existingPid ELSE @]
            ELSE w
      p == IF exited THEN w1.spawns ELSE p0
      w2 == updatePersistedState(
              [w1 EXCEPT !.proc = p, !.adoptedPid = p],
              [desired |-> "running", pid |-> p])
  IN [w2 EXCEPT !.watched = @ \cup {p},
                !.starter = StarterIdle,
                !.starting = FALSE,
                !.microtasks = @ \o w.startWaiters,
                !.startWaiters = <<>>]

\* The start IIFE after "await runOpenclawGatewayStop()" (lines 446-456).
StartAfterGatewayStop(w, outcome, par) ==
  LET w1 == runOpenclawGatewayStop(w, outcome)
      existingPid == w.starter.existingPid
  IN IF outcome = "fail" /\ pidExists(w1, existingPid)
     THEN LET r == cleanupPidBestEffortBegin(w1, existingPid, par)
          IN [r[1] EXCEPT !.starter.pc = r[2]]
     ELSE StartSpawn(w1)

\* waitForPidGone(pid): returns at once when the pid is gone, else polls.
StartWaitForPidGone(w) ==
  IF pidExists(w, w.starter.existingPid)
  THEN [w EXCEPT !.starter.pc = "gone_wait"]
  ELSE StartSpawn(w)

\* cleanupPidBestEffort(existingPid) after its waitForPidExit(15 s).
StartAfterKillWait(w, par) ==
  LET r == cleanupPidBestEffortAfterWait(w, w.starter.existingPid, par)
  IN IF r[2] = "cleaned" THEN StartWaitForPidGone(r[1])
     ELSE [r[1] EXCEPT !.starter.pc = r[2]]

\* ---- stop() -------------------------------------------------------------
\* Signals the stop in flight has sent to gateway pids, by kind.
TallyStop(w) ==
  [w EXCEPT !.cycle.terms =
              @ + Cardinality({x \in w.ev.sent : x[1] \in Pids /\ x[2] = "SIGTERM"}),
            !.cycle.kills =
              @ + Cardinality({x \in w.ev.sent : x[1] \in Pids /\ x[2] = "SIGKILL"})]

\* The finally block of the stop IIFE and the .finally that clears stopPromise;
\* every caller awaiting stopPromise is resumed.
StopFinally(w) ==
  LET w1 == updatePersistedState(
              [w EXCEPT !.proc = NoPid, !.adoptedPid = NoPid,
                        !.state = "stopped", !.readyAt = FALSE],
              [pid |-> NoPid])
  IN [w1 EXCEPT !.stopping = FALSE,
                !.stopPromise = FALSE,
                !.stopper = StopperIdle,
                !.cycle = [CycleIdle EXCEPT !.signalled =
                             IF w.cycle.terms + w.cycle.kills = 0 THEN NoPid
                             ELSE IF w.stopper.pid # NoPid THEN w.stopper.pid
                             ELSE w.stopper.targetPid],
                !.ev.ended = w.cycle,
                !.microtasks = @ \o w.stopWaiters,
                !.stopWaiters = <<>>]

\* waitForPidGone(pid, shutdownTimeoutMs) of the stop IIFE.
StopWaitForPidGone(w, pid) ==
  IF pidExists(w, pid)
  THEN [w EXCEPT !.stopper = [@ EXCEPT !.pc = "gone_wait", !.pid = pid]]
  ELSE StopFinally(w)

\* Fault seeded for C9: stop() without "if (stopPromise) return await
\* stopPromise" (line 574), so every call runs a stop of its own.
StopEntryNotShared(w, c) ==
  LET w1 == updatePersistedState(
              [w EXCEPT !.desired = FALSE, !.stopping = TRUE,
                        !.state = "stopping"],
              [desired |-> "stopped"])
  IN [w1 EXCEPT !.stopper = [pc |-> "gwstop", targetPid |-> w1.proc,
                             pid |-> NoPid],
                !.cycle.cmds = @ + 1, !.cycle.fromStopped = (w.state = "stopped"),
                     !.cycle.signalled = NoPid,
                !.stopPromise = TRUE,
                !.call[c].pc = "k_await",
                !.stopWaiters = Append(@, c)]

\* stop() from its first line to its first await.
StopEntry(w, c) ==
  IF w.stopPromise
  THEN [w EXCEPT !.call[c].pc = "k_await", !.stopWaiters = Append(@, c)]
  ELSE LET w1 == updatePersistedState(
                   [w EXCEPT !.desired = FALSE, !.stopping = TRUE,
                             !.state = "stopping"],
                   [desired |-> "stopped"])
           targetPid == IF w1.proc # NoPid THEN w1.proc
                        ELSE IF readPersistedState(w1).pid # NoPid
                             THEN readPersistedState(w1).pid
                             ELSE w1.adoptedPid
       IN [w1 EXCEPT !.stopper = [pc |-> "gwstop", targetPid |-> targetPid,
                                  pid |-> NoPid],
                     !.cycle.cmds = @ + 1, !.cycle.fromStopped = (w.state = "stopped"),
                     !.cycle.signalled = NoPid,
                     !.stopPromise = TRUE,
                     !.call[c].pc = "k_await",
                     !.stopWaiters = Append(@, c)]

\* Fault seeded for C21: a stop that knows no pid terminates whatever
\* process answers on the port.
StopAfterGatewayStopByPort(w, outcome, par) ==
  LET w1 == runOpenclawGatewayStop(w, outcome)
      targetPid == IF w.stopper.targetPid # NoPid THEN w.stopper.targetPid
                   ELSE IF w1.listener \in Pids THEN w1.listener ELSE NoPid
  IN IF w1.proc # NoPid
     THEN LET w2 == TallyStop(Kill(w1, w1.proc, "SIGTERM"))
          IN [w2 EXCEPT !.stopper = [@ EXCEPT !.pc = "waitChildExit",
                                              !.pid = w1.proc]]
     ELSE IF targetPid # NoPid /\ pidExists(w1, targetPid)
     THEN LET r == cleanupPidBestEffortBegin(w1, targetPid, par)
          IN [TallyStop(r[1]) EXCEPT
                !.stopper = [@ EXCEPT !.pc = r[2], !.pid = targetPid]]
     ELSE StopFinally(w1)

\* The stop IIFE after "await runOpenclawGatewayStop()" up to its next await.
StopAfterGatewayStop(w, outcome, par) ==
  LET w1 == runOpenclawGatewayStop(w, outcome)
      targetPid == w.stopper.targetPid
  IN IF w1.proc # NoPid
     THEN LET w2 == TallyStop(Kill(w1, w1.proc, "SIGTERM"))
          IN [w2 EXCEPT !.stopper = [@ EXCEPT !.pc = "waitChildExit",
                                              !.pid = w1.proc]]
     ELSE IF targetPid # NoPid /\ pidExists(w1, targetPid)
     THEN LET r == cleanupPidBestEffortBegin(w1, targetPid, par)
          IN [TallyStop(r[1]) EXCEPT
                !.stopper = [@ EXCEPT !.pc = r[2], !.pid = targetPid]]
     ELSE StopFinally(w1)

\* Fault seeded for C28: the stop IIFE without the SIGKILL of lines 608-618.
StopAfterChildExitNoKill(w) == StopWaitForPidGone(w, w.stopper.pid)

\* The stop IIFE after waitForChildExit(proc, shutdownTimeoutMs).
StopAfterChildExit(w) ==
  LET pid == w.stopper.pid
      w1 == IF pidExists(w, pid)
            THEN TallyStop(Kill(w, pid, "SIGKILL"))
            ELSE w
  IN StopWaitForPidGone(w1, pid)

\* cleanupPidBestEffort(targetPid) after its waitForPidExit.
StopAfterKillWait(w, par) ==
  LET r == cleanupPidBestEffortAfterWait(w, w.stopper.pid, par)
  IN IF r[2] = "cleaned" THEN StopWaitForPidGone(TallyStop(r[1]), w.stopper.pid)
     ELSE [TallyStop(r[1]) EXCEPT !.stopper.pc = r[2]]

\* ---- ensureRunning() ----------------------------------------------------
\* Classifier of the captured start output.  With detach = true no output is
\* captured (lastStartOutput stays null) and lastError is null or a spawn
\* error text, so the text examined is "" or "spawn error".
looksLikeLock(out) == out = "already running"

\* Fault seeded for C5: ensureRunning() without the persisted-desired check
\* (lines 532-536).
EnsureAfterStopNoCheck(w, c) == [w EXCEPT !.call[c].pc = "e_probe"]

\* ensureRunning() from the persisted-desired check to its next await.
EnsureAfterStop(w, c) ==
  IF readPersistedState(w).desired = "stopped"
  THEN Return([w EXCEPT !.desired = FALSE, !.state = "stopped"], c, "ok")
  ELSE [w EXCEPT !.call[c].pc = "e_probe"]

\* ensureRunning() past "if (stopPromise) await stopPromise": it reads the
\* persisted record now.
EnsurePastStop(w, c) ==
  EnsureAfterStop([w EXCEPT !.call[c].rd = readPersistedState(w).desired], c)

\* ensureRunning() from its first line to its first await (or its return).
EnsureEntry(w, c) ==
  IF w.state = "running" THEN Return(w, c, "ok")
  ELSE IF w.stopPromise
  THEN [w EXCEPT !.call[c].pc = "e_awaitStop", !.stopWaiters = Append(@, c)]
  ELSE EnsurePastStop(w, c)

\* Fault seeded for C16: ensureRunning() without the adoption of lines
\* 538-544, so it goes on to start() whatever the probe found.
EnsureAfterProbeNoAdopt(w, c) == StartEntry([w EXCEPT !.call[c].attempt = 0], c)

\* ensureRunning() after "await canConnect(host, port, 250)".
EnsureAfterProbe(w, c) ==
  IF canConnect(w)
  THEN LET pidFromState == readPersistedState(w).pid
       IN Return(
            [w EXCEPT !.state = "running", !.readyAt = TRUE,
                      !.adoptedPid = IF pidFromState # NoPid
                                        /\ isPidRunning(w, pidFromState)
                                     THEN pidFromState ELSE @,
                      !.recov.adopted = TRUE], c, "ok")
  ELSE StartEntry([w EXCEPT !.call[c].attempt = 0], c)

\* Fault seeded for C22: a successful readiness wait sets the state
\* 'running' without stamping readyAt (line 549).
EnsureAfterWaitForReadyNoStamp(w, c, ok) ==
  IF ok
  THEN Return([w EXCEPT !.state = "running"], c, "ok")
  ELSE Return(w, c, "throw")

\* Fault seeded for C15: the first failed readiness wait is followed by a
\* second start() whatever the start output looks like.
EnsureAfterWaitForReadyRetryAny(w, c, ok) ==
  IF ok
  THEN Return([w EXCEPT !.readyAt = TRUE, !.state = "running"], c, "ok")
  ELSE IF w.call[c].attempt = 0
  THEN StartEntry(clearPersistedPid([w EXCEPT !.call[c].attempt = 1]), c)
  ELSE Return(w, c, "throw")

\* ensureRunning() after waitForReady(host, port, 40 s).  (On the retry path
\* the lock holder is the persisted pid; as no start output is captured the
\* path is never taken and clearLockPidBestEffort's waits are not modelled.)
EnsureAfterWaitForReady(w, c, ok) ==
  IF ok
  THEN Return([w EXCEPT !.readyAt = TRUE, !.state = "running"], c, "ok")
  ELSE LET out == IF w.lastError # "null" THEN w.lastError ELSE ""
           w1 == [w EXCEPT !.call[c].lock = looksLikeLock(out)]
       IN IF w.call[c].attempt = 0 /\ looksLikeLock(out)
          THEN StartEntry(clearPersistedPid([w1 EXCEPT !.call[c].attempt = 1]), c)
          ELSE Return(w1, c, "throw")    \* Gateway did not become ready

\* ---- construction ---------------------------------------------------------
\* createGatewayManager: the closure variables after construction, given the
\* persisted record and the process table.
Construct(w) ==
  LET initialPersisted == readPersistedState(w)
  IN [w EXCEPT !.up = TRUE,
               !.desired = (initialPersisted.desired = "running"),
               !.proc = NoPid, !.starting = FALSE, !.stopPromise = FALSE,
               !.stopping = FALSE, !.state = "stopped", !.readyAt = FALSE,
               !.restartCount = 0, !.lastError = "null", !.lastExit = FALSE,
               !.adoptedPid = IF initialPersisted.pid # NoPid
                                 /\ isPidRunning(w, initialPersisted.pid)
                              THEN initialPersisted.pid ELSE NoPid,
               !.recov = IF initialPersisted.desired = "running"
                            /\ initialPersisted.pid # NoPid
                            /\ ~isPidRunning(w, initialPersisted.pid)
                         THEN [RecovNone EXCEPT !.pid = initialPersisted.pid,
                                                !.st = "fresh"]
                         ELSE RecovNone]

\* The supervisor process dies (crash, container restart).  The gateway was
\* spawned detached and survives; every coroutine and timer is lost.
Halt(w) ==
  [w EXCEPT !.up = FALSE, !.desired = FALSE, !.proc = NoPid,
            !.starting = FALSE, !.stopPromise = FALSE, !.stopping = FALSE,
            !.state = "stopped", !.readyAt = FALSE, !.restartCount = 0,
            !.lastError = "null", !.lastExit = FALSE, !.adoptedPid = NoPid,
            !.timers = 0, !.children = {}, !.watched = {},
            !.call = [c \in DOMAIN w.call |-> CallIdle],
            !.starter = StarterIdle, !.stopper = StopperIdle,
            !.stopWaiters = <<>>, !.startWaiters = <<>>, !.microtasks = <<>>,
            !.cycle = CycleIdle, !.disturbed = TRUE, !.calls = @ + 1,
            !.recov = RecovNone]

\* ---- the process manager's memory (part_001) ------------------------------
defaultStatus == [state |-> "stopped", pid |-> NoPid, readyAt |-> FALSE,
                  restartCount |-> 0, lastExit |-> FALSE, lastError |-> "null"]

PmLoopIdle == [pc |-> "idle", p |-> NoPid]

\* main() up to its first call of loop(): proc = null, status = defaultStatus(),
\* restartCount = 0.  control is the parsed control file (readControl), phase
\* tells how far main() is ("init", "first": in "await loop()", "interval":
\* past setInterval), observed the pids carrying startChild's exit observer,
\* loop the runs of loop() in flight; cycle counts the stop command runs and
\* signals since the latest stop began (history).
PmStart ==
  [control |-> "stopped", proc |-> NoPid, status |-> defaultStatus,
   restartCount |-> 0, observed |-> {}, loop |-> [i \in Loops |-> PmLoopIdle],
   phase |-> "init", cycle |-> CycleIdle, handler |-> 0]

\* The engine after construction, with room for the callers cs.
EngineInit(cs) ==
  /\ ps = [p \in Pids |-> "none"]
  /\ listener = NoPid
  /\ children = {}
  /\ watched = {}
  /\ primaryInstalled \in BOOLEAN
  /\ persisted = defaultPersistedState
  /\ disk = [writable |-> TRUE, intended |-> defaultPersistedState]
  /\ peer = PeerIdle /\ client = ClientIdle
  /\ up = TRUE /\ desired = TRUE /\ proc = NoPid
  /\ starting = FALSE /\ stopPromise = FALSE /\ stopping = FALSE
  /\ state = "stopped" /\ readyAt = FALSE /\ restartCount = 0
  /\ lastError = "null" /\ adoptedPid = NoPid /\ lastExit = FALSE
  /\ timers = 0
  /\ call = [c \in cs |-> CallIdle]
  /\ starter = StarterIdle
  /\ stopper = StopperIdle
  /\ stopWaiters = <<>> /\ startWaiters = <<>> /\ microtasks = <<>>
  /\ calls = 0 /\ lastRequest = defaultPersistedState.desired /\ spawns = 0 /\ ev = EvNone
  /\ recov = RecovNone
  /\ cycle = CycleIdle /\ disturbed = FALSE

\* The engine is constructed; the process manager is not part of this program.
Init == EngineInit(Callers) /\ pm = PmStart

\* A step of the model: the successor world, kept inside the pid bound.
Step(w) == w.spawns <= MaxPid /\ Apply(w)

\* The world a step starts from: nothing done yet in this step.
Now == [World EXCEPT !.ev = EvNone,
                     !.recov = IF @.st = "returned" THEN RecovNone ELSE @]

\* Fault seeded for C17: waitForPidExit and waitForPidGone without their
\* timeouts, so they end only when the pid is gone.
TimeoutNever(pid) == ps[pid] \notin {"alive", "zombie"}

\* A wait of seconds that follows a child's death does not expire before the
\* event loop has reaped that child (which takes it one loop iteration).
TimeoutOk(pid) == ~(pid \in children /\ ps[pid] = "zombie")

\* An event of the event loop is handled only when no microtask is pending.
Quiet == up /\ microtasks = <<>>

FreeCaller == CHOOSE c \in DOMAIN call :
                /\ call[c].pc = "idle"
                /\ \A d \in DOMAIN call : call[d].pc = "idle" => c <= d
HasFreeCaller == \E c \in DOMAIN call : call[c].pc = "idle"

Invoke(w, c, op, by) ==
  [w EXCEPT !.call[c] = [op |-> op, pc |-> "entry", attempt |-> 0, by |-> by,
                         rd |-> "none", lock |-> FALSE],
            !.recov = IF @.st = "fresh" /\ op = "ensure" /\ by = "api"
                      THEN [@ EXCEPT !.st = "ensuring"]
                      ELSE IF by = "api" THEN RecovNone ELSE @,
            !.calls = IF by = "api" THEN @ + 1 ELSE @,
            !.lastRequest = IF by = "api" /\ op = "start" THEN "running"
                            ELSE IF by = "api" /\ op = "stop" THEN "stopped"
                            ELSE @,
            !.disturbed = @ \/ op = "stop"]

\* ---- environment --------------------------------------------------------
ProcessDies(p) ==
  /\ microtasks = <<>>
  /\ ps[p] = "alive"
  /\ Step([Now EXCEPT !.ps[p] = "zombie", !.disturbed = TRUE,
                      !.listener = IF @ = p THEN NoPid ELSE @])

ProcessReady(p) ==
  /\ microtasks = <<>>
  /\ ps[p] = "alive" /\ listener = NoPid
  /\ Step([Now EXCEPT !.listener = p])

ExternalUp ==
  /\ microtasks = <<>>
  /\ listener = NoPid
  /\ Step([Now EXCEPT !.listener = ExtOwner])

ExternalDown ==
  /\ microtasks = <<>>
  /\ listener = ExtOwner
  /\ Step([Now EXCEPT !.listener = NoPid])

OrphanReaped(p) ==
  /\ microtasks = <<>>
  /\ ps[p] = "zombie" /\ p \notin children
  /\ Step([Now EXCEPT !.ps[p] = "gone"])

\* The supervisor reaps a dead child: exitCode is set and 'exit' is emitted
\* to the observer (if registered) and then to a pending waitForChildExit.
ChildExit(p) ==
  /\ Quiet
  /\ ps[p] = "zombie" /\ p \in children
  /\ LET w1 == [Now EXCEPT !.ps[p] = "gone", !.children = @ \ {p},
                             !.watched = @ \ {p}]
         w2 == IF p \in watched THEN ExitObserver(w1) ELSE w1
     IN Step(IF stopper.pc = "waitChildExit" /\ stopper.pid = p
             THEN [w2 EXCEPT !.microtasks = Append(@, Stopper)]
             ELSE w2)

Crash ==
  /\ up /\ calls < MaxCalls
  /\ Step(Halt(Now))

Boot ==
  /\ ~up
  /\ Step(Construct(Now))

\* ---- API calls and timers -----------------------------------------------
CallStart ==
  /\ Quiet /\ calls < MaxCalls /\ HasFreeCaller
  /\ LET c == FreeCaller
     IN Step(StartEntry(Invoke(Now, c, "start", "api"), c))

CallStop ==
  /\ Quiet /\ calls < MaxCalls /\ HasFreeCaller
  /\ LET c == FreeCaller
     IN Step(StopEntry(Invoke(Now, c, "stop", "api"), c))

CallEnsureRunning ==
  /\ Quiet /\ calls < MaxCalls /\ HasFreeCaller
  /\ LET c == FreeCaller
     IN Step(EnsureEntry(Invoke(Now, c, "ensure", "api"), c))

\* setTimeout(() => void start(), backoffMs) of the exit observer fires.
RestartTimerFires ==
  /\ Quiet /\ timers > 0 /\ HasFreeCaller
  /\ LET c == FreeCaller
     IN Step(StartEntry(Invoke([Now EXCEPT !.timers = @ - 1],
                               c, "start", "timer"), c))

\* ---- microtasks ---------------------------------------------------------
Resume(w, id) ==
  IF id = Stopper THEN StopAfterChildExit(w)
  ELSE IF w.call[id].pc = "s_awaitStop" THEN StartAfterStop(w, id)
  ELSE IF w.call[id].pc = "s_awaitStarting" THEN StartReturn(w, id)
  ELSE IF w.call[id].pc = "e_awaitStop" THEN EnsurePastStop(w, id)
  ELSE Return(w, id, "ok")                     \* k_await: stop() returns

RunMicrotask ==
  /\ up /\ microtasks # <<>>
  /\ Step(Resume([Now EXCEPT !.microtasks = Tail(@)], Head(microtasks)))

\* ---- the start IIFE resumes ---------------------------------------------
\* (The parent of a pid is looked up only on the cleanup path: in start() when
\* the stop command has thrown, in stop() when no handle is held.)
StarterGatewayStopDone ==
  /\ Quiet /\ starter.pc = "gwstop"
  /\ \E outcome \in StopOutcomes :
       \E par \in (IF outcome = "fail" THEN ParentKinds ELSE {"unknown"}) :
         Step(StartAfterGatewayStop(Now, outcome, par))

StarterKillWaitDone ==
  /\ Quiet /\ starter.pc = "ck_wait" /\ TimeoutOk(starter.existingPid)
  /\ \E par \in ParentKinds : Step(StartAfterKillWait(Now, par))

StarterZombieWaitDone ==
  /\ Quiet /\ starter.pc = "cz_wait" /\ TimeoutOk(starter.existingPid)
  /\ Step(StartWaitForPidGone(Now))

StarterPidGoneDone ==
  /\ Quiet /\ starter.pc = "gone_wait" /\ TimeoutOk(starter.existingPid)
  /\ Step(StartSpawn(Now))

StarterSleepDone ==
  /\ Quiet /\ starter.pc = "sleep200"
  /\ Step(StartAttemptFinish(Now))

\* ---- the stop IIFE resumes ----------------------------------------------
StopperGatewayStopDone ==
  /\ Quiet /\ stopper.pc = "gwstop"
  /\ \E outcome \in StopOutcomes :
       \E par \in (IF proc = NoPid /\ stopper.targetPid # NoPid
                   THEN ParentKinds ELSE {"unknown"}) :
         Step(StopAfterGatewayStop(Now, outcome, par))

\* waitForChildExit's timer fires before the child's 'exit'.
StopperChildExitTimeout ==
  /\ Quiet /\ stopper.pc = "waitChildExit" /\ ps[stopper.pid] = "alive"
  /\ Step(StopAfterChildExit(Now))

StopperKillWaitDone ==
  /\ Quiet /\ stopper.pc = "ck_wait" /\ TimeoutOk(stopper.pid)
  /\ \E par \in ParentKinds : Step(StopAfterKillWait(Now, par))

StopperZombieWaitDone ==
  /\ Quiet /\ stopper.pc = "cz_wait" /\ TimeoutOk(stopper.pid)
  /\ Step(StopWaitForPidGone(Now, stopper.pid))

StopperPidGoneDone ==
  /\ Quiet /\ stopper.pc = "gone_wait" /\ TimeoutOk(stopper.pid)
  /\ Step(StopFinally(Now))

\* ---- ensureRunning resumes ----------------------------------------------
EnsureProbeDone(c) ==
  /\ Quiet /\ call[c].pc = "e_probe"
  /\ Step(EnsureAfterProbe(Now, c))

\* waitForReady returns true on a successful probe, false at its timeout.
EnsureWaitForReadyDone(c) ==
  /\ Quiet /\ call[c].pc = "e_ready"
  /\ Step(EnsureAfterWaitForReady(Now, c, canConnect(Now)))

Next ==
  \/ \E p \in Pids : ProcessDies(p)
  \/ \E p \in Pids : ProcessReady(p)
  \/ ExternalUp
  \/ ExternalDown
  \/ \E p \in Pids : OrphanReaped(p)
  \/ \E p \in Pids : ChildExit(p)
  \/ Crash
  \/ Boot
  \/ CallStart
  \/ CallStop
  \/ CallEnsureRunning
  \/ RestartTimerFires
  \/ RunMicrotask
  \/ StarterGatewayStopDone
  \/ StarterKillWaitDone
  \/ StarterZombieWaitDone
  \/ StarterPidGoneDone
  \/ StarterSleepDone
  \/ StopperGatewayStopDone
  \/ StopperChildExitTimeout
  \/ StopperKillWaitDone
  \/ StopperZombieWaitDone
  \/ StopperPidGoneDone
  \/ \E c \in Callers : EnsureProbeDone(c)
  \/ \E c \in Callers : EnsureWaitForReadyDone(c)

Spec == Init /\ [][Next]_vars

\* The event loop keeps running: while a continuation is pending, a dead child
\* waits to be reaped, the stop command is running (it ends by itself or at
\* its 15 s timeout, line 246) or a timer of the stop IIFE's waits is armed,
\* one of them is handled.  Nothing is assumed of the gateway: it may ignore
\* SIGTERM for ever.
StopProgress ==
  \/ RunMicrotask
  \/ \E p \in Pids : ChildExit(p)
  \/ StopperGatewayStopDone
  \/ StopperChildExitTimeout
  \/ StopperKillWaitDone
  \/ StopperZombieWaitDone
  \/ StopperPidGoneDone

\* start() and stop() without ensureRunning() and without a gateway of
\* another owner: the steps that bear on a stop coming to its end.
StopNext ==
  \/ \E p \in Pids : ProcessDies(p)
  \/ \E p \in Pids : ProcessReady(p)
  \/ \E p \in Pids : OrphanReaped(p)
  \/ \E p \in Pids : ChildExit(p)
  \/ Crash
  \/ Boot
  \/ CallStart
  \/ CallStop
  \/ RestartTimerFires
  \/ RunMicrotask
  \/ StarterGatewayStopDone
  \/ StarterKillWaitDone
  \/ StarterZombieWaitDone
  \/ StarterPidGoneDone
  \/ StarterSleepDone
  \/ StopperGatewayStopDone
  \/ StopperChildExitTimeout
  \/ StopperKillWaitDone
  \/ StopperZombieWaitDone
  \/ StopperPidGoneDone

StopInit == EngineInit(StopCallers) /\ pm = PmStart

FairSpec == StopInit /\ [][StopNext]_vars /\ WF_vars(StopProgress)

\* ==== the engine beside a second supervisor process ======================
PeerRead ==
  /\ peer.pc = "idle"
  /\ Step(peerReadPersistedState(Now))

PeerWrite ==
  /\ peer.pc = "read"
  /\ Step(peerWritePersistedState(Now))

PeerNext ==
  \/ Next
  \/ PeerRead
  \/ PeerWrite

SpecPeer == Init /\ [][PeerNext]_vars

\* ==== the engine on a disk that can fail ==================================
\* The state file becomes unwritable (disk full, read-only mount) and
\* writable again.
DiskFails ==
  /\ disk.writable
  /\ Step([Now EXCEPT !.disk.writable = FALSE])

DiskRecovers ==
  /\ ~disk.writable
  /\ Step([Now EXCEPT !.disk.writable = TRUE])

DiskNext ==
  \/ Next
  \/ DiskFails
  \/ DiskRecovers

SpecDisk == Init /\ [][DiskNext]_vars

\* ==== the engine with stop() requested only while it reports 'running' =====
CallStopWhileRunning == state = "running" /\ CallStop

StopRunningNext ==
  \/ \E p \in Pids : ProcessDies(p)
  \/ \E p \in Pids : ProcessReady(p)
  \/ ExternalUp
  \/ ExternalDown
  \/ \E p \in Pids : OrphanReaped(p)
  \/ \E p \in Pids : ChildExit(p)
  \/ Crash
  \/ Boot
  \/ CallStart
  \/ CallStopWhileRunning
  \/ CallEnsureRunning
  \/ RestartTimerFires
  \/ RunMicrotask
  \/ StarterGatewayStopDone
  \/ StarterKillWaitDone
  \/ StarterZombieWaitDone
  \/ StarterPidGoneDone
  \/ StarterSleepDone
  \/ StopperGatewayStopDone
  \/ StopperChildExitTimeout
  \/ StopperKillWaitDone
  \/ StopperZombieWaitDone
  \/ StopperPidGoneDone
  \/ \E c \in Callers : EnsureProbeDone(c)
  \/ \E c \in Callers : EnsureWaitForReadyDone(c)

\* The engine is constructed either on a clean slate or after a restart of
\* the supervisor, with the gateway of the previous run (pid 1, in the
\* persisted record) still alive and listening or not yet listening.
StopRunningInit ==
  \/ Init
  \/ /\ ps = [p \in Pids |-> IF p = 1 THEN "alive" ELSE "none"]
     /\ listener \in {NoPid, 1}
     /\ children = {} /\ watched = {}
     /\ primaryInstalled \in BOOLEAN
     /\ persisted = [desired |-> "running", pid |-> 1]
     /\ disk = [writable |-> TRUE, intended |-> persisted]
     /\ peer = PeerIdle /\ client = ClientIdle
     /\ up = TRUE /\ desired = TRUE /\ proc = NoPid
     /\ starting = FALSE /\ stopPromise = FALSE /\ stopping = FALSE
     /\ state = "stopped" /\ readyAt = FALSE /\ restartCount = 0
     /\ lastError = "null" /\ adoptedPid = 1 /\ lastExit = FALSE
     /\ timers = 0
     /\ call = [c \in Callers |-> CallIdle]
     /\ starter = StarterIdle /\ stopper = StopperIdle
     /\ stopWaiters = <<>> /\ startWaiters = <<>> /\ microtasks = <<>>
     /\ calls = 0 /\ lastRequest = "running" /\ spawns = 1 /\ ev = EvNone
     /\ recov = RecovNone /\ cycle = CycleIdle /\ disturbed = TRUE
     /\ pm = PmStart

SpecStopRunning == StopRunningInit /\ [][StopRunningNext]_vars

\* ==== the engine constructed over a persisted record ======================
\* Every operation of the engine, from a construction that found either no
\* record or the record and the live gateway of an earlier supervisor.
SpecAdopted == StopRunningInit /\ [][Next]_vars

\* ==== the engine in a crash loop ===========================================
\* The engine after k unplanned exits (k from 0 to MaxRestarts) followed by a
\* stop(): nothing is held or persisted, desired is stopped.  From there the
\* gateway is started and keeps dying.
BackoffInit ==
  /\ ps = [p \in Pids |-> "none"]
  /\ listener = NoPid /\ children = {} /\ watched = {}
  /\ primaryInstalled \in BOOLEAN
  /\ persisted = [desired |-> "stopped", pid |-> NoPid]
  /\ disk = [writable |-> TRUE, intended |-> persisted]
  /\ peer = PeerIdle /\ client = ClientIdle
  /\ up = TRUE /\ desired = FALSE /\ proc = NoPid
  /\ starting = FALSE /\ stopPromise = FALSE /\ stopping = FALSE
  /\ state = "stopped" /\ readyAt = FALSE
  /\ restartCount \in 0..MaxRestarts
  /\ lastError = "null" /\ adoptedPid = NoPid /\ lastExit = (restartCount > 0)
  /\ timers = 0
  /\ call = [c \in Callers |-> CallIdle]
  /\ starter = StarterIdle /\ stopper = StopperIdle
  /\ stopWaiters = <<>> /\ startWaiters = <<>> /\ microtasks = <<>>
  /\ calls = 0 /\ lastRequest = "stopped" /\ spawns = 0 /\ ev = EvNone
  /\ recov = RecovNone /\ cycle = CycleIdle /\ disturbed = TRUE
  /\ pm = PmStart

BackoffNext ==
  \/ CallStart
  \/ RunMicrotask
  \/ StarterSleepDone
  \/ \E p \in Pids : ProcessDies(p)
  \/ \E p \in Pids : ChildExit(p)
  \/ RestartTimerFires

SpecBackoff == BackoffInit /\ [][BackoffNext]_vars

\* ==== the process manager (src/unnamed/part_001) ==========================
\* A separate program: it watches the control file and is the parent of the
\* gateway.  loop() runs once, then on every tick of setInterval(loop, 500);
\* a tick does not wait for the run before it, so runs of loop() overlap
\* whenever one of them is suspended in an await.

readControl(w) == w.pm.control

writeStatusAndLog(w, next) == [w EXCEPT !.pm.status = next]

\* process.exit(0) of the signal handlers (lines 531, 538): every run and
\* every observer is gone, the children live on without their parent.
PmExit(w) ==
  [w EXCEPT !.pm.phase = "exited",
            !.pm.loop = [i \in Loops |-> PmLoopIdle],
            !.pm.handler = 0, !.pm.observed = {},
            !.children = {}]

\* loop() returns; the first run is followed by setInterval (line 525).  When
\* it is the signal handler's stopChild() that returns, the process exits.
PmLoopReturn(w, i) ==
  IF w.pm.handler = i THEN PmExit(w)
  ELSE [w EXCEPT !.pm.loop[i] = PmLoopIdle,
                 !.pm.phase = IF @ = "first" THEN "interval" ELSE @]

\* stopChild(): the promise's executor.  process.kill throws only when the
\* pid does not exist.
stopChild(w, i) ==
  IF w.pm.proc = NoPid THEN PmLoopReturn(w, i)
  ELSE LET pid == w.pm.proc
           w1 == writeStatusAndLog(
                   [w EXCEPT !.pm.cycle = IF w.pm.status.state = "stopping"
                                          THEN @ ELSE CycleIdle],
                   [w.pm.status EXCEPT !.state = "stopping"])
       IN IF pidExists(w1, pid)
          THEN [Kill(w1, pid, "SIGTERM") EXCEPT
                  !.pm.cycle.terms = @ + 1,
                  !.pm.loop[i] = [pc |-> "stopwait", p |-> pid]]
          ELSE LET w2 == [Kill(Kill(w1, pid, "SIGTERM"), pid, "SIGKILL") EXCEPT
                            !.pm.cycle.kills = @ + 1, !.pm.proc = NoPid]
               IN PmLoopReturn(
                    writeStatusAndLog(w2,
                      [w2.pm.status EXCEPT !.state = "stopped", !.pid = NoPid,
                                           !.readyAt = FALSE, !.lastExit = TRUE]),
                    i)

\* Fault seeded for C26: startChild() goes on to the stop command and the
\* spawn although the config holds no token.
startChildUnchecked(w, i, tok) ==
  [writeStatusAndLog(w, IF tok THEN w.pm.status
                        ELSE [w.pm.status EXCEPT !.lastError = "config"])
     EXCEPT !.ev.res = IF tok THEN @ ELSE "configMissing",
            !.pm.loop[i] = [pc |-> "gwstop", p |-> NoPid],
            !.pm.cycle.cmds = @ + 1]

\* startChild() up to "await runOpenclawGatewayStop()"; tok: the config file
\* holds a gateway token.  ev.res = "configMissing" marks the step in which
\* the token was found missing.
startChild(w, i, tok) ==
  IF ~tok
  THEN PmLoopReturn(
         [writeStatusAndLog(w, [w.pm.status EXCEPT !.lastError = "config"])
            EXCEPT !.ev.res = "configMissing"], i)
  ELSE [w EXCEPT !.pm.loop[i] = [pc |-> "gwstop", p |-> NoPid],
                 !.pm.cycle.cmds = @ + 1]

\* startChild() after the stop command (whose failure is ignored) up to
\* "await setTimeout(200)".
PmAfterGatewayStop(w, i, outcome) ==
  LET w1 == runOpenclawGatewayStop(w, outcome)
      w2 == writeStatusAndLog(w1, [w1.pm.status EXCEPT !.state = "starting",
                                                      !.lastError = "null"])
  IN IF w2.primaryInstalled
     THEN LET w3 == SpawnProcess(w2)
          IN [w3 EXCEPT !.pm.loop[i] = [pc |-> "sleep200", p |-> w3.spawns]]
     ELSE [w2 EXCEPT !.pm.loop[i] = [pc |-> "sleep200", p |-> NoPid]]

\* startChild()'s exit observer (p.on('exit'), lines 467-483).
PmExitObserver(w, p) ==
  IF w.pm.proc = p
  THEN LET w1 == [w EXCEPT !.pm.proc = NoPid, !.pm.restartCount = @ + 1]
       IN writeStatusAndLog(w1,
            [w1.pm.status EXCEPT !.state = "stopped", !.pid = NoPid,
                                 !.readyAt = FALSE,
                                 !.restartCount = w1.pm.restartCount,
                                 !.lastExit = TRUE])
  ELSE w

\* stopChild()'s exit handler (proc.once('exit'), lines 394-407), for run i.
PmStopExitHandler(w, i) ==
  LET w1 == [w EXCEPT !.pm.proc = NoPid]
  IN PmLoopReturn(
       writeStatusAndLog(w1,
         [w1.pm.status EXCEPT !.state = "stopped", !.pid = NoPid,
                              !.readyAt = FALSE, !.lastExit = TRUE]),
       i)

\* startChild() after the 200 ms sleep up to "await waitForReady".
PmAfterSleep(w, i) ==
  LET p0 == w.pm.loop[i].p
      exited == p0 = NoPid \/ w.ps[p0] = "gone"
      w1 == IF exited THEN SpawnProcess(w) ELSE w
      p == IF exited THEN w1.spawns ELSE p0
      w2 == writeStatusAndLog([w1 EXCEPT !.pm.proc = p],
                              [w1.pm.status EXCEPT !.pid = p,
                                                   !.state = "starting"])
  IN [w2 EXCEPT !.pm.observed = @ \cup {p},
                !.pm.loop[i] = [pc |-> "ready", p |-> p]]

\* startChild() after waitForReady(40 s).
PmAfterWaitForReady(w, i, ready) ==
  LET p == w.pm.loop[i].p
  IN IF ready /\ w.pm.proc = p
     THEN PmLoopReturn(
            writeStatusAndLog(w, [w.pm.status EXCEPT !.state = "running",
                                                     !.readyAt = TRUE]), i)
     ELSE IF w.pm.proc = NoPid THEN PmLoopReturn(w, i)
     ELSE PmLoopReturn(
            writeStatusAndLog(w, [w.pm.status EXCEPT !.lastError = "notReady"]),
            i)

\* loop() after "await canConnect(...)" (lines 513-519).
PmAfterProbe(w, i) ==
  IF canConnect(w)
  THEN PmLoopReturn(
         writeStatusAndLog(w, [w.pm.status EXCEPT !.state = "running",
                                                  !.readyAt = TRUE,
                                                  !.lastError = "null"]), i)
  ELSE PmLoopReturn(w, i)

\* loop() from its first line to its first await (or its end).
loop(w, i, tok) ==
  IF readControl(w) = "stopped"
  THEN IF w.pm.proc # NoPid THEN stopChild(w, i) ELSE PmLoopReturn(w, i)
  ELSE IF w.pm.proc = NoPid THEN startChild(w, i, tok)
  ELSE IF w.pm.status.state # "running"
  THEN [w EXCEPT !.pm.loop[i] = [pc |-> "probe", p |-> NoPid]]
  ELSE PmLoopReturn(w, i)

\* ---- actions of the process manager --------------------------------------
\* The config is read only on the path that starts a child.
PmTokens(w) ==
  IF readControl(w) = "running" /\ w.pm.proc = NoPid THEN BOOLEAN ELSE {TRUE}

\* main() calls loop() for the first time (line 524).
PmFirstLoop ==
  /\ pm.phase = "init"
  /\ \E tok \in PmTokens(Now) :
       Step(loop([Now EXCEPT !.pm.phase = "first"], 1, tok))

\* A tick of setInterval(loop, POLL_MS); the run takes the first free slot.
PmTick(i) ==
  /\ pm.phase = "interval"
  /\ pm.loop[i].pc = "idle"
  /\ \A j \in Loops : pm.loop[j].pc = "idle" => i <= j
  /\ \E tok \in PmTokens(Now) : Step(loop(Now, i, tok))

PmGatewayStopDone(i) ==
  /\ pm.loop[i].pc = "gwstop"
  /\ \E outcome \in StopOutcomes : Step(PmAfterGatewayStop(Now, i, outcome))

PmSleepDone(i) ==
  /\ pm.loop[i].pc = "sleep200"
  /\ Step(PmAfterSleep(Now, i))

\* waitForReady returns true on a successful probe, false at its timeout.
PmWaitForReadyDone(i) ==
  /\ pm.loop[i].pc = "ready"
  /\ Step(PmAfterWaitForReady(Now, i, canConnect(Now)))

PmProbeDone(i) ==
  /\ pm.loop[i].pc = "probe"
  /\ Step(PmAfterProbe(Now, i))

\* The manager reaps a dead child: 'exit' goes to startChild's observer,
\* then to the handlers stopChild registered, in the order of registration.
RECURSIVE PmRunStopHandlers(_, _, _)
PmRunStopHandlers(w, p, is) ==
  IF is = {} THEN w
  ELSE LET i == CHOOSE j \in is : \A k \in is : j <= k
       IN PmRunStopHandlers(PmStopExitHandler(w, i), p, is \ {i})

PmChildExit(p) ==
  /\ ps[p] = "zombie" /\ p \in children
  /\ LET w1 == [Now EXCEPT !.ps[p] = "gone", !.children = @ \ {p},
                           !.pm.observed = @ \ {p}]
         w2 == IF p \in pm.observed THEN PmExitObserver(w1, p) ELSE w1
     IN Step(PmRunStopHandlers(w2, p,
               {i \in Loops : pm.loop[i].pc = "stopwait" /\ pm.loop[i].p = p}))

\* SIGTERM or SIGINT reaches the manager once its handlers are registered
\* (after the first loop()): clearInterval, then "await stopChild()", then
\* process.exit(0).  The handler's stopChild() runs in free slot i.
PmSignal(i) ==
  /\ pm.phase = "interval" /\ pm.handler = 0
  /\ pm.loop[i].pc = "idle"
  /\ \A j \in Loops : pm.loop[j].pc = "idle" => i <= j
  /\ Step(stopChild([Now EXCEPT !.pm.phase = "signalled", !.pm.handler = i], i))

\* The control file is rewritten (by the file-based client).
ControlWrite ==
  \E d \in {"running", "stopped"} :
    /\ d # pm.control
    /\ Step([Now EXCEPT !.pm.control = d])

LoopInit == EngineInit(Callers) /\ pm \in {[PmStart EXCEPT !.control = d] :
                                   d \in {"running", "stopped"}}

LoopNext ==
  \/ \E p \in Pids : ProcessDies(p)
  \/ \E p \in Pids : ProcessReady(p)
  \/ ExternalUp
  \/ ExternalDown
  \/ \E p \in Pids : PmChildExit(p)
  \/ ControlWrite
  \/ PmFirstLoop
  \/ \E i \in Loops : PmTick(i)
  \/ \E i \in Loops : PmGatewayStopDone(i)
  \/ \E i \in Loops : PmSleepDone(i)
  \/ \E i \in Loops : PmWaitForReadyDone(i)
  \/ \E i \in Loops : PmProbeDone(i)

SpecLoop == LoopInit /\ [][LoopNext]_vars

\* What the manager's event loop does by itself once it is due: the first
\* loop() run, the interval's ticks, the delivery of a child's 'exit' event,
\* and the waits that carry a timer (the 200 ms sleep, waitForReady and the
\* probe's socket timeout).  Neither the child's death nor the close of the
\* `openclaw gateway stop` command is among them: the manager sets no timer
\* on either.
LoopProgress ==
  \/ PmFirstLoop
  \/ \E i \in Loops : PmTick(i)
  \/ \E p \in Pids : PmChildExit(p)
  \/ \E i \in Loops : PmSleepDone(i)
  \/ \E i \in Loops : PmWaitForReadyDone(i)
  \/ \E i \in Loops : PmProbeDone(i)

FairLoop == LoopInit /\ [][LoopNext]_vars /\ WF_vars(LoopProgress)

\* A well-behaved gateway: a child that stopChild has sent SIGTERM exits, and
\* the `openclaw gateway stop` command comes to its end.
GatewayObeys ==
  \/ \E p \in Pids :
       /\ \E i \in Loops : pm.loop[i].pc = "stopwait" /\ pm.loop[i].p = p
       /\ ProcessDies(p)
  \/ \E i \in Loops : PmGatewayStopDone(i)

FairLoopObeyed ==
  LoopInit /\ [][LoopNext]_vars /\ WF_vars(LoopProgress) /\ WF_vars(GatewayObeys)

\* ==== the file-based client (src/server/gatewayClient.ts, part_000) ======
\* op: the call under way or the last one made; pc: "idle", "poll" (in the
\* wait loop, between two reads of the status file), "probe" (awaiting the
\* loop's canConnect), "lastprobe" (awaiting the canConnect after the
\* timeout); res: how the last call ended ("ok", "throw"); probing: the
\* build of gatewayClient.ts (waitForRunning / waitForStopped, which probe
\* the port) or that of part_000 (waitForState, which reads the file only).
ClientOps == {"ensure", "start", "stop"}

readStatus(w) == w.pm.status

\* writeControl: the write is best-effort, its failure is swallowed.
writeControl(w, d) ==
  IF w.disk.writable THEN [w EXCEPT !.pm.control = d] ELSE w

ClientTarget(op) == IF op = "stop" THEN "stopped" ELSE "running"
ClientLagging(op) == IF op = "stop" THEN "stopping" ELSE "starting"

\* What the probe must say for the wait to succeed: the port answers for
\* running, it does not answer for stopped.
ClientProbeOk(w, op) == IF op = "stop" THEN ~canConnect(w) ELSE canConnect(w)

ClientReturn(w, res) == [w EXCEPT !.client.pc = "idle", !.client.res = res]

\* Fault seeded for C38: a client that leaves a control file saying
\* 'stopped' alone when asked to ensure the gateway runs.
clientEntryKeepsStopped(w, op, probing) ==
  [(IF op = "ensure" /\ w.pm.control = "stopped" THEN w
    ELSE writeControl(w, ClientTarget(op))) EXCEPT
     !.client = [op |-> op, pc |-> "poll", res |-> "none", probing |-> probing]]

\* ensureRunning(), start() and stop() up to the wait: start() writes
\* 'running' and calls ensureRunning(), which writes it again.
clientEntry(w, op, probing) ==
  [writeControl(w, ClientTarget(op)) EXCEPT
     !.client = [op |-> op, pc |-> "poll", res |-> "none", probing |-> probing]]

\* One pass of the wait loop before its timeout.
clientPoll(w) ==
  LET op == w.client.op
  IN IF readStatus(w).state = ClientTarget(op) THEN ClientReturn(w, "ok")
     ELSE IF w.client.probing /\ readStatus(w).state = ClientLagging(op)
     THEN [w EXCEPT !.client.pc = "probe"]
     ELSE w

clientAfterProbe(w) ==
  IF ClientProbeOk(w, w.client.op) THEN ClientReturn(w, "ok")
  ELSE [w EXCEPT !.client.pc = "poll"]

\* The wait loop is over (POLL_TIMEOUT_MS): the last read of the status.
clientTimeout(w) ==
  IF readStatus(w).state = ClientTarget(w.client.op) THEN ClientReturn(w, "ok")
  ELSE IF w.client.probing THEN [w EXCEPT !.client.pc = "lastprobe"]
  ELSE ClientReturn(w, "throw")

clientAfterLastProbe(w) ==
  ClientReturn(w, IF ClientProbeOk(w, w.client.op) THEN "ok" ELSE "throw")

MaxClientCalls == 2   \* calls of the client over a run

ClientCall ==
  /\ client.pc = "idle" /\ calls < MaxClientCalls
  /\ \E op \in ClientOps, probing \in BOOLEAN :
       Step(clientEntry([Now EXCEPT !.calls = @ + 1], op, probing))

ClientPoll ==
  /\ client.pc = "poll"
  /\ clientPoll(Now).client # client
  /\ Step(clientPoll(Now))

ClientProbeDone ==
  /\ client.pc = "probe"
  /\ Step(clientAfterProbe(Now))

ClientTimeout ==
  /\ client.pc = "poll"
  /\ Step(clientTimeout(Now))

ClientLastProbeDone ==
  /\ client.pc = "lastprobe"
  /\ Step(clientAfterLastProbe(Now))

\* The client beside the process manager: the control file is written by
\* the client only, and a gateway ends only when the manager stops it.
ClientNext ==
  \/ \E p \in Pids : ProcessReady(p)
  \/ \E p \in Pids : PmChildExit(p)
  \/ PmFirstLoop
  \/ \E i \in Loops : PmTick(i)
  \/ \E i \in Loops : PmGatewayStopDone(i)
  \/ \E i \in Loops : PmSleepDone(i)
  \/ \E i \in Loops : PmWaitForReadyDone(i)
  \/ \E i \in Loops : PmProbeDone(i)
  \/ ClientCall
  \/ ClientPoll
  \/ ClientProbeDone
  \/ ClientTimeout
  \/ ClientLastProbeDone

SpecClient == LoopInit /\ [][ClientNext]_vars

\* The client alone with its files: the control file may be unwritable, and
\* something may or may not answer on the gateway port.
ClientFilesNext ==
  \/ ExternalUp
  \/ ExternalDown
  \/ DiskFails
  \/ DiskRecovers
  \/ ClientCall
  \/ ClientPoll
  \/ ClientProbeDone
  \/ ClientTimeout
  \/ ClientLastProbeDone

ClientFilesInit ==
  /\ EngineInit(Callers)
  /\ pm \in {[PmStart EXCEPT !.control = d, !.status.state = st] :
               d \in {"running", "stopped"},
               st \in {"stopped", "starting", "running", "stopping"}}

SpecClientFiles == ClientFilesInit /\ [][ClientFilesNext]_vars

\* ---- the process manager receiving a termination signal -----------------
LoopSignalNext ==
  \/ LoopNext
  \/ \E i \in Loops : PmSignal(i)

SpecLoopSignal == LoopInit /\ [][LoopSignalNext]_vars

\* ---- the process manager under a single request to run -------------------
\* The control file asks for 'running' at most once: it may be written
\* 'stopped', and is never written 'running' again.
ControlWriteStopped ==
  /\ pm.control = "running"
  /\ Step([Now EXCEPT !.pm.control = "stopped"])

OneRequestNext ==
  \/ \E p \in Pids : ProcessDies(p)
  \/ \E p \in Pids : ProcessReady(p)
  \/ ExternalUp
  \/ ExternalDown
  \/ \E p \in Pids : PmChildExit(p)
  \/ ControlWriteStopped
  \/ PmFirstLoop
  \/ \E i \in Loops : PmTick(i)
  \/ \E i \in Loops : PmGatewayStopDone(i)
  \/ \E i \in Loops : PmSleepDone(i)
  \/ \E i \in Loops : PmWaitForReadyDone(i)
  \/ \E i \in Loops : PmProbeDone(i)

SpecLoopOneRequest == LoopInit /\ [][OneRequestNext]_vars

\* ---- the process manager crashes and is restarted ------------------------
\* The manager process dies and main() runs again: proc is null, status is
\* defaultStatus() and is published (line 499), restartCount is 0, and every
\* run of loop() and every handler is lost.  The control file stays as it
\* is; the gateway it had spawned lives on without a parent.
MaxCrashes == 1

PmRestart ==
  /\ calls < MaxCrashes
  /\ Step([Now EXCEPT !.pm = [PmStart EXCEPT !.control = pm.control],
                      !.children = {},
                      !.calls = @ + 1])

LoopRestartNext ==
  \/ LoopNext
  \/ PmRestart
  \/ \E p \in Pids : OrphanReaped(p)

FairLoopRestart ==
  LoopInit /\ [][LoopRestartNext]_vars
    /\ WF_vars(LoopProgress) /\ WF_vars(GatewayObeys)

\* ==== properties ==========================================================

\* ---- C1 ------------------------------------------------------------------
\* C1: whenever the engine reports state 'running', some process accepts
\* connections on the target port.  Stated generously: a death the event loop
\* has not yet delivered to the exit observer (a watched child that is a
\* zombie) is allowed for.  Refuted: a process adopted by ensureRunning() has
\* no exit observer, so after it goes away the state stays 'running'.
C1_RunningImpliesReachable ==
  (up /\ state = "running")
    => (canConnect(World) \/ \E p \in watched : ps[p] = "zombie")

\* ---- C2 ------------------------------------------------------------------
\* C2: whenever the engine reports state 'stopped', no process this engine
\* spawned is still alive.  Refuted: stop() called while start() sleeps at
\* line 490 sees neither proc nor a persisted pid, signals nothing and reports
\* 'stopped' while the spawned process lives on.
C2_StoppedImpliesNoLiveChild ==
  (up /\ state = "stopped") => \A p \in children : ps[p] # "alive"

\* ---- C3 ------------------------------------------------------------------
\* C3: whenever start() spawns a process, the pid it found in the persisted
\* record is no longer alive at the moment of the spawn.  (ev.over is that
\* pid when it is still running at the spawn.)  Refuted: when the stop
\* command exits 0 or reports "not running", start() clears the pid and
\* spawns without looking at the process.
C3_SpawnOnlyAfterNeutralized == ev.over = NoPid

\* ---- C4 ------------------------------------------------------------------
\* C4: start() is idempotent while a process is held or a start is in
\* flight.  As long as no stop request, crash or process death has happened,
\* any number of start() (and ensureRunning()) calls spawn one process in
\* total, and every start() returns successfully with the process held.
C4_StartIdempotent ==
  ~disturbed
    => /\ spawns <= 1
       /\ ev.ret.op = "start" => (ev.res = "ok" /\ proc # NoPid)

\* A start() call made while a process was held has returned from line 434
\* (in the step it was called in); one process was spawned in all.
C4_Witness ==
  /\ ~disturbed /\ spawns = 1 /\ proc = 1
  /\ ev.ret.op = "start" /\ ev.ret.pc = "entry" /\ ev.res = "ok"
  /\ calls >= 2

C6_AsStated ==
  recov.st = "returned" => (persisted.pid # recov.pid /\ recov.spawned)

\* C6 amended: in that situation no signal is ever sent to P, and if nothing
\* answered the probe of line 538, then by the time ensureRunning() returns
\* or throws P has been cleared from the record and a process was spawned.
C6_CrashRecovery ==
  /\ recov.st # "none" => \A x \in ev.sent : x[1] # recov.pid
  /\ (recov.st = "returned" /\ ~recov.adopted)
       => (persisted.pid # recov.pid /\ recov.spawned)

\* The recovering ensureRunning() has returned after spawning a replacement
\* for P, which is a zombie.
C6_Witness ==
  /\ recov.st = "returned" /\ ~recov.adopted /\ recov.spawned
  /\ ps[recov.pid] = "zombie"
  /\ persisted.pid \notin {NoPid, recov.pid}

\* ---- C7 ------------------------------------------------------------------
\* C7: the pid of a spawned process is persisted before the process is
\* confirmed ready, so at any crash point every live process the engine
\* spawned is the pid in the persisted record.  Refuted: the pid is written
\* at line 498, after the 200 ms sleep that follows the spawn of line 485.
C7_PidPersistedAtCrash ==
  ~up => \A p \in Pids : ps[p] = "alive" => persisted.pid = p

\* ---- C8 ------------------------------------------------------------------
\* C8: the persisted desired value always equals the operator's most recent
\* start or stop request.  Refuted: the start in flight writes desired =
\* running again at line 498, after a later stop() has written stopped.
C8_DesiredIsLastRequest == persisted.desired = lastRequest

\* ---- C9 ------------------------------------------------------------------
\* C9: concurrent stop() callers share one stop in flight.  While a stop is
\* in flight the stop command has run once and at most one SIGTERM and one
\* SIGKILL went to the gateway, however many callers joined; every caller in
\* stop() is queued on that stop, and none is left waiting once it is over.
C9_StopShared ==
  /\ stopPromise => (cycle.cmds = 1 /\ cycle.terms <= 1 /\ cycle.kills <= 1)
  /\ \A c \in Callers : call[c].pc = "k_await" =>
       \/ stopPromise /\ \E i \in DOMAIN stopWaiters : stopWaiters[i] = c
       \/ \E i \in DOMAIN microtasks : microtasks[i] = c

\* Two callers wait on the one stop in flight, which has sent its SIGTERM.
C9_Witness ==
  /\ stopPromise /\ cycle.terms = 1
  /\ \A c \in Callers : call[c].op = "stop" /\ call[c].pc = "k_await"

\* ---- C10 -----------------------------------------------------------------
\* C10: a start() call made while a stop is in flight returns only after the
\* stop has finished, with a process held and desired running.  Stated for
\* the calls that return without suspending: such a call was not made during
\* a stop (start() sets no stopPromise, so a stop in flight when it returns
\* was in flight when it was called).  Refuted: "if (proc) return" (line 434)
\* comes before "await stopPromise" (line 435), so with a process held the
\* call returns at once, mid-stop.
C10_StartWaitsForStop ==
  (ev.ret.op = "start" /\ ev.ret.by = "api" /\ ev.ret.pc = "entry")
    => ~stopPromise

\* ---- C11 -----------------------------------------------------------------
\* C11: every change of the reported state is stopped->starting,
\* starting->running, running->stopping or stopping->stopped, whatever
\* operation or event makes it (the supervisor being up before and after).
\* Refuted: the exit observer (line 511) takes 'starting' and 'running'
\* straight to 'stopped', stop() (line 580) sets 'stopping' from any state,
\* and ensureRunning() adopts from 'stopped' to 'running' (line 539).
C11_OnlyLegalTransitions ==
  [][(up /\ up' /\ state' # state)
       => <<state, state'>> \in {<<"stopped", "starting">>,
                                 <<"starting", "running">>,
                                 <<"running", "stopping">>,
                                 <<"stopping", "stopped">>}]_vars

\* ---- C12 -----------------------------------------------------------------
\* C12: restartCount increases only when the managed process exits unplanned
\* while desired is running; an exit during a planned stop never increases
\* it.  Engine: the count rises only in a step that reaps a process, with
\* desired running (in memory and on disk) and no stop in flight.  Process
\* manager: the count rises only while the control file says running and no
\* stop of the child is under way.  Refuted for the process manager: the
\* observer of line 467 counts every exit of the held child, and it runs
\* before stopChild's handler clears proc, so each planned stop is counted.
C12_RestartCountOnlyUnplanned ==
  [][/\ (up /\ up' /\ restartCount' # restartCount)
          => /\ restartCount' = restartCount + 1
             /\ \E p \in Pids : ps[p] = "zombie" /\ ps'[p] = "gone"
             /\ desired /\ persisted.desired = "running" /\ ~stopPromise
     /\ (pm'.restartCount # pm.restartCount)
          => /\ pm'.restartCount = pm.restartCount + 1
             /\ \E p \in Pids : ps[p] = "zombie" /\ ps'[p] = "gone"
             /\ pm.control = "running" /\ pm.status.state # "stopping"]_vars

\* ---- C13 -----------------------------------------------------------------
\* C13: readyAt is null whenever the reported state is 'stopping' or
\* 'stopped' (it is cleared the moment stopping begins or the exit is
\* observed), in the engine and in the process manager's status.  Refuted:
\* stop() sets 'stopping' at line 580 and clears readyAt only in its finally
\* block (line 630), so readyAt stays set for the whole stop.
C13_ReadyAtNullWhenStopped ==
  /\ (up /\ state \in {"stopping", "stopped"}) => ~readyAt
  /\ pm.status.state \in {"stopping", "stopped"} => ~pm.status.readyAt

\* ---- C14 -----------------------------------------------------------------
\* C14: after the k-th consecutive unplanned exit (restartCount = k) the
\* restart is scheduled after min(15000, 500 * k) ms: 500, 1000 and 1500 ms
\* for the first three exits, 500 ms more for each further one up to the
\* cap, and never more than 15000 ms.
C14_BackoffDelay ==
  ev.backoff # NoDelay =>
    /\ restartCount >= 1
    /\ ev.backoff <= 15000
    /\ restartCount = 1 => ev.backoff = 500
    /\ restartCount = 2 => ev.backoff = 1000
    /\ restartCount = 3 => ev.backoff = 1500
    /\ restartCount <= 30 => ev.backoff = 500 * restartCount
    /\ restartCount >= 30 => ev.backoff = 15000

\* A restart was scheduled after an exit past the thirtieth: the cap applies.
C14_Witness == restartCount > 30 /\ ev.backoff = 15000 /\ timers > 0

\* ---- C15 -----------------------------------------------------------------
\* C15: ensureRunning() makes at most two start attempts, the second only
\* after a failed readiness wait that was classified as lock contention; a
\* call throws only after a readiness wait has failed; and it returns
\* successfully only with desired stopped (state 'stopped'), or with the
\* state 'running' and readyAt set: found so at the call, or set by this
\* call after its own probe or readiness wait succeeded.
C15_EnsureRunningOutcomes ==
  /\ \A c \in Callers :
       /\ call[c].attempt \in {0, 1}
       /\ call[c].attempt = 1 => (call[c].op = "ensure" /\ call[c].lock)
  /\ ev.res = "throw" =>
       (ev.ret.op = "ensure" /\ ev.ret.pc = "e_ready" /\ ~canConnect(World))
  /\ (ev.ret.op = "ensure" /\ ev.res = "ok") =>
       \/ ev.ret.rd = "stopped" /\ state = "stopped" /\ ~desired
       \/ /\ ev.ret.rd # "stopped" /\ state = "running" /\ readyAt
          /\ ev.ret.pc \in {"e_probe", "e_ready"} => canConnect(World)
          /\ ev.ret.pc \in {"entry", "e_probe", "e_ready"}

\* An ensureRunning() call has thrown: its start attempt was made, the
\* readiness wait failed, and nothing answers on the port.
C15_Witness ==
  /\ ev.ret.op = "ensure" /\ ev.res = "throw" /\ ev.ret.attempt = 0
  /\ ~canConnect(World) /\ spawns >= 1

\* ---- C16 -----------------------------------------------------------------
\* C16: when ensureRunning() (desired running, state not 'running') finds the
\* port accepting connections at its probe of line 538, that step takes the
\* engine to 'running' with readyAt set and the call returns successfully;
\* the step spawns no process, sends no signal and changes no process.
C16_AdoptWithoutSpawn ==
  [][\A c \in Callers :
       (/\ up /\ up'
        /\ call[c].pc = "e_probe" /\ call'[c].pc # "e_probe"
        /\ listener # NoPid)
       => /\ state' = "running" /\ readyAt'
          /\ ev'.ret.op = "ensure" /\ ev'.res = "ok"
          /\ spawns' = spawns /\ ~ev'.spawned /\ ev'.sent = {}
          /\ ps' = ps /\ children' = children /\ listener' = listener]_vars

\* An ensureRunning() call made with state 'stopped' has adopted a gateway
\* that this engine did not spawn.
C16_Witness ==
  /\ ev.ret.op = "ensure" /\ ev.ret.pc = "e_probe" /\ ev.res = "ok"
  /\ state = "running" /\ readyAt /\ listener = ExtOwner
  /\ proc = NoPid /\ ev.sent = {} /\ ~ev.spawned

\* ---- C17 -----------------------------------------------------------------
\* C17 as stated: whenever a stop() call returns, the state is 'stopped', no
\* handle is held and the persisted pid is null.  Refuted: a stop() call
\* that joined the stop in flight behind a waiting start() returns after
\* that start() has resumed and set the state to 'starting'.
C17_AsStated ==
  ev.ret.op = "stop" => (state = "stopped" /\ proc = NoPid /\ persisted.pid = NoPid)

\* C17 amended: every stop in flight comes to its end, whatever the gateway
\* does, and every call waiting on it then returns (as long as the model has
\* a pid left for a start() queued before it); at the end of the stop the
\* state is 'stopped', no handle is held, the persisted pid is null and no
\* caller is left queued on the stop.
C17_StopCompletes ==
  /\ stopPromise ~> ~stopPromise
  /\ (\E c \in StopCallers : call[c].pc = "k_await")
       ~> ((\A c \in StopCallers : call[c].pc # "k_await") \/ spawns >= MaxPid)
  /\ [][(up' /\ stopPromise /\ ~stopPromise')
          => (state' = "stopped" /\ proc' = NoPid /\ persisted'.pid = NoPid
              /\ ~stopping' /\ stopWaiters' = <<>>)]_vars

\* A stop() call has returned, state 'stopped' and nothing held or
\* persisted, while a dead gateway that this supervisor cannot reap (it was
\* spawned before a crash) is still in the process table.
C17_Witness ==
  /\ ev.ret.op = "stop" /\ ev.ret.pc = "k_await" /\ ev.res = "ok"
  /\ state = "stopped" /\ proc = NoPid /\ persisted.pid = NoPid
  /\ \E p \in Pids : ps[p] = "zombie" /\ p \notin children

\* ---- C18 -----------------------------------------------------------------
\* C18: no lifecycle wait is unbounded; in particular a loop() run of the
\* process manager that waits in stopChild for the exit of its held child
\* always gets past that wait, whether or not the child obeys SIGTERM.
\* Refuted for the process manager: stopChild sends SIGTERM and then waits
\* for the child's 'exit' event with no timer and no SIGKILL, so with a child
\* that ignores SIGTERM the wait never ends.
C18_NoUnboundedWait ==
  \A i \in Loops : (pm.loop[i].pc = "stopwait") ~> (pm.loop[i].pc # "stopwait")

\* ---- C19 -----------------------------------------------------------------
\* C19: during a stop the stop command is invoked before any signal goes to
\* the gateway, SIGTERM precedes SIGKILL, and SIGKILL is sent only after a
\* wait, to a process that is still present.  The first three conjuncts say
\* it of the engine's stop(), the last two of the process manager's stop of
\* its held child.  Refuted for the process manager: stopChild sends SIGTERM
\* without running `openclaw gateway stop`.
C19_StopOrdering ==
  /\ []((cycle.terms > 0 \/ cycle.kills > 0) => cycle.cmds > 0)
  /\ [](cycle.kills > 0 => cycle.terms > 0)
  /\ [][cycle'.kills > cycle.kills
          => (stopper.pc \in {"waitChildExit", "ck_wait"}
              /\ stopper.pid \in Pids /\ ps[stopper.pid] \in {"alive", "zombie"})]_vars
  /\ [](pm.status.state = "stopping"
         => ((pm.cycle.terms > 0 \/ pm.cycle.kills > 0) => pm.cycle.cmds > 0))
  /\ [](pm.status.state = "stopping" => (pm.cycle.kills > 0 => pm.cycle.terms > 0))

\* ---- C20 -----------------------------------------------------------------
\* C20: the engine sends no signal to a pid that is in zombie state; when it
\* wants such a pid gone, its signal goes to the zombie's parent.  Refuted:
\* the branch of stop() for a held child (lines 593-620) signals proc.pid
\* without looking at its state, so a child that has died and whose 'exit'
\* event is not delivered yet is sent SIGTERM.
C20_NoSignalToZombie ==
  [][\A p \in Pids : ps[p] = "zombie" => \A x \in ev'.sent : x[1] # p]_vars

\* ---- C21 -----------------------------------------------------------------
\* C21 as stated: a stop() called while the reported state is 'stopped'
\* sends no SIGTERM and no SIGKILL to a gateway.  Refuted: a fresh engine
\* reports 'stopped' while the persisted record names a live pid, and
\* stop() terminates that pid.
C21_AsStated ==
  (stopPromise /\ cycle.fromStopped) => (cycle.terms = 0 /\ cycle.kills = 0)

\* C21 amended: a stop sends nothing before its stop command has returned,
\* and a stop() that was called with no handle held and no persisted or
\* adopted pid, and that finds no handle when the stop command returns, ends
\* in that step with state 'stopped' and sends no signal at all, however
\* many requests came before it.
C21_StopWithoutTarget ==
  /\ []((stopPromise /\ stopper.pc = "gwstop")
         => (cycle.terms = 0 /\ cycle.kills = 0))
  /\ [][(/\ up /\ up'
          /\ stopper.pc = "gwstop" /\ stopper'.pc # "gwstop"
          /\ stopper.targetPid = NoPid /\ proc = NoPid)
         => (ev'.sent = {} /\ ~stopPromise' /\ state' = "stopped"
             /\ ps' \in {ps, [p \in Pids |-> IF p = listener THEN "zombie" ELSE ps[p]]})]_vars

\* The third request of the run, a stop() called in state 'stopped' after
\* the process of the first request has gone and its exit was observed, has
\* ended without sending a signal.
C21_Witness ==
  /\ ev.ended.fromStopped /\ ev.ended.terms = 0 /\ ev.ended.kills = 0
  /\ ev.sent = {} /\ ~stopPromise /\ state = "stopped"
  /\ calls = 3 /\ spawns = 1 /\ ps[1] = "gone" /\ lastExit /\ restartCount = 0

C23_StopFromRunning ==
  /\ [](stopPromise => state \in {"stopping", "stopped"})
  /\ [][(up' /\ stopPromise /\ ~stopPromise')
         => (state' = "stopped" /\ ~readyAt' /\ proc' = NoPid
             /\ adoptedPid' = NoPid)]_vars

\* ---- C24 -----------------------------------------------------------------
\* C24: the process manager's loop converges to the desired state.  If from
\* some point on the control file says stopped, then from some later point
\* on no process is held and the published state is 'stopped'; if from some
\* point on it says running and no config failure is published, a process
\* is held again and again (as long as the model has a pid left to spawn).
\* Refuted even with a gateway that obeys SIGTERM: a run of loop() that is
\* in its connection probe (line 513) when the control file turns to
\* stopped publishes 'running' after the child was stopped, and no later
\* tick corrects the status.
C24_Converges ==
  /\ (<>[](pm.control = "stopped"))
       => <>[](pm.proc = NoPid /\ pm.status.state = "stopped")
  /\ (<>[](pm.control = "running") /\ <>[](pm.status.lastError # "config"))
       => ([]<>(pm.proc # NoPid) \/ <>(spawns >= MaxPid))

\* ---- C25 -----------------------------------------------------------------
\* C25: after the process manager has crashed and been restarted, its ticks
\* resolve what the crashed instance left behind: from some point on every
\* live gateway process is a child of the running manager (a gateway of the
\* crashed instance has been taken over or terminated).  Refuted: main()
\* starts with proc = null and reads no pid from any file, so with desired
\* stopped the restarted manager never touches the old gateway, which keeps
\* running while the published state is 'stopped'.
C25_ResolvesAfterCrash ==
  <>[](\A p \in Pids : ps[p] = "alive" => p \in children)

C27_WriteFailureChangesNothing ==
  /\ [][\A c \in Callers :
          (call[c].rd = "none" /\ call'[c].rd # "none")
            => call'[c].rd = disk'.intended.desired]_vars
  /\ [][(up /\ up' /\ ~stopPromise /\ stopPromise' /\ proc = NoPid)
          => stopper'.targetPid = IF disk'.intended.pid # NoPid
                                  THEN disk'.intended.pid ELSE adoptedPid]_vars

\* ---- C28 -----------------------------------------------------------------
\* C28: a gateway the engine has stopped is never taken for a running one.
\* Whenever the state becomes 'running', something answers on the port, and
\* it is not the process the latest finished stop signalled.
C28_NoLingeringOwner ==
  [][(up /\ up' /\ state # "running" /\ state' = "running")
       => /\ listener' # NoPid
          /\ cycle'.signalled # NoPid => listener' # cycle'.signalled]_vars

C28_Witness ==
  /\ up /\ state = "running" /\ readyAt /\ ~stopPromise
  /\ ev.ret.op = "ensure" /\ ev.res = "ok"
  /\ cycle.signalled = 1 /\ ps[1] \in {"zombie", "gone"} /\ restartCount = 0
  /\ spawns = 2 /\ proc = 2 /\ listener = 2
  /\ persisted = [desired |-> "running", pid |-> 2]

\* ---- C29 -----------------------------------------------------------------
\* C29: with two supervisor processes on one state file, an update of the
\* pid field by one of them leaves the desired value as the other wrote it.
\* Refuted: updatePersistedState writes back the whole record it read
\* earlier, and with it the desired value of that time.
C29_PidUpdateKeepsDesired ==
  [][(peer.pc = "read" /\ peer'.pc = "idle")
       => persisted'.desired = persisted.desired]_vars

\* ---- C30 -----------------------------------------------------------------
\* C30: overlapping runs of loop() act as one.  At most one child of the
\* process manager is alive at a time, and the child being stopped gets one
\* SIGTERM per stop.  Refuted: loop() has no in-flight guard; proc is
\* assigned only after startChild's 200 ms sleep and cleared only by the
\* exit handler, so the next tick sees the same condition and acts again.
C30_TicksSerialized ==
  /\ Cardinality({p \in children : ps[p] = "alive"}) <= 1
  /\ pm.cycle.terms <= 1

\* ---- C31 -----------------------------------------------------------------
\* C31: the loop's force-transition (lines 513-519) publishes 'running' only
\* over a status that is 'starting' and while a child is held; never over a
\* status that is 'stopping' or 'stopped'.  Refuted: the tick tests
\* state !== 'running', and it writes after awaiting the probe without
\* looking at proc or the status again.
C31_ForceRunningOnlyFromStarting ==
  [][\A i \in Loops :
       (/\ pm.loop[i].pc = "probe" /\ pm'.loop[i].pc # "probe"
        /\ pm.status.state # "running" /\ pm'.status.state = "running")
         => (pm.status.state = "starting" /\ pm.proc # NoPid)]_vars

\* ---- C33 -----------------------------------------------------------------
\* C33: with stop() the latest request, a restart timer that fires spawns
\* nothing, leaves desired false and leaves the persisted desired value as
\* it is.  Refuted: stop() does not cancel the timer of line 517, and the
\* start() it runs sets desired and persists 'running' (lines 432-433).
C33_NoRestartAfterStop ==
  [][(up /\ up' /\ timers' < timers /\ lastRequest = "stopped")
       => (/\ spawns' = spawns
           /\ desired' = desired
           /\ persisted'.desired = persisted.desired)]_vars

\* ---- C34 -----------------------------------------------------------------
\* C34: the exit of a process that is not the current handle changes
\* nothing: the handle, the persisted pid, the state, restartCount and the
\* pending restarts stay as they are, in the engine and in the process
\* manager.  Refuted for the engine: its observer (lines 506-519) does not
\* compare the exited process with proc.
C34_StaleExitIgnored ==
  [][\A p \in Pids :
       /\ (/\ up /\ up' /\ ps[p] = "zombie" /\ ps'[p] = "gone"
           /\ proc # NoPid /\ proc # p)
            => (/\ proc' = proc /\ persisted'.pid = persisted.pid
                /\ state' = state /\ restartCount' = restartCount
                /\ timers' = timers)
       /\ (/\ ps[p] = "zombie" /\ ps'[p] = "gone"
           /\ pm.proc # NoPid /\ pm.proc # p)
            => (/\ pm'.proc = pm.proc /\ pm'.status = pm.status
                /\ pm'.restartCount = pm.restartCount)]_vars

\* ---- C35 -----------------------------------------------------------------
\* C35: whenever the process manager publishes state 'running' it holds a
\* child, and the published pid is that child's.  Refuted: the probe of
\* line 513 resolves after the child has exited and the tick writes
\* {...status, state: 'running'} over the observer's 'stopped' status.
C35_RunningHasHeldChild ==
  pm.status.state = "running"
    => (pm.proc # NoPid /\ pm.status.pid = pm.proc)

\* ---- C39 -----------------------------------------------------------------
\* C39: whenever getStatus() reports 'stopped' it reports pid null.
\* Refuted: the pid reported is proc?.pid ?? adoptedPid (line 316), and
\* adoptedPid is set from the persisted record at construction (line 312),
\* when the state is 'stopped'.
C39_StoppedReportsNoPid ==
  (up /\ getStatus(World).state = "stopped") => getStatus(World).pid = NoPid

\* ---- C40 -----------------------------------------------------------------
\* C40: the state is never left at 'starting' once the start that set it is
\* over: while it is 'starting', the start IIFE is in flight or a call of
\* start() or ensureRunning() is under way.  Refuted: start() sets
\* 'starting' (line 439) and nothing in it sets 'running'; only
\* ensureRunning() does, so a direct start() leaves 'starting' behind.
C40_StartingIsTransient ==
  (up /\ state = "starting")
    => (starting \/ \E c \in DOMAIN call : call[c].op \in {"ensure", "start"})

\* ---- C36 -----------------------------------------------------------------
\* C36: when the process manager has handled SIGTERM or SIGINT and exited,
\* no gateway it spawned is alive.  Refuted: the handler awaits stopChild(),
\* which returns at once when proc is null, and proc is null while
\* startChild() is between its spawn and the end of its 200 ms sleep.
C36_NoChildSurvivesExit ==
  pm.phase = "exited" => \A p \in Pids : ps[p] # "alive"

\* ---- C32 -----------------------------------------------------------------
\* C32: when zombie recovery runs on a zombie, the zombie's parent gets a
\* signal exactly when its command name is on the allow-list, and that
\* signal is SIGTERM; with a parent that is unknown or off the list the step
\* signals nothing but the gateway pid itself (the SIGKILL of
\* killPidBestEffort that may precede the recovery).
C32_ParentAllowList ==
  [][ev'.reap # "none"
       => /\ (<<ParentOfZombie, "SIGTERM">> \in ev'.sent) <=> (ev'.reap = "allowed")
          /\ \A x \in ev'.sent :
                x[1] = ParentOfZombie => (x[2] = "SIGTERM" /\ ev'.reap = "allowed")
          /\ ev'.reap # "allowed" => \A x \in ev'.sent : x[1] \in Pids]_vars

C32_Witness ==
  /\ ev.reap = "other" /\ ev.sent = {}
  /\ \E p \in Pids : ps[p] = "zombie" /\ (stopper.pid = p \/ starter.existingPid = p)

\* ---- C37 -----------------------------------------------------------------
\* C37: once the client's stop() has returned success (and until its next
\* call), the process manager holds no child, has no start in flight and
\* no child of it is alive.  Refuted: the wait returns on the first status
\* that reads 'stopped', which may be the one published before the start in
\* flight wrote 'starting'.
C37_StopOkMeansStopped ==
  (client.op = "stop" /\ client.pc = "idle" /\ client.res = "ok")
    => /\ pm.proc = NoPid
       /\ \A i \in Loops : pm.loop[i].pc \notin {"gwstop", "sleep200", "ready"}
       /\ \A p \in children : ps[p] # "alive"

\* ---- C38 -----------------------------------------------------------------
\* C38 as stated: a call of the client always leaves the control file with
\* the desired value of the call.  Refuted when the file cannot be written.
C38_AsStated ==
  [][(client.pc = "idle" /\ client'.pc # "idle")
       => pm'.control = ClientTarget(client'.op)]_vars

\* C38: no step of the client changes the status file; a call writes the
\* control file before it waits, with 'stopped' for stop() and 'running'
\* for start() and ensureRunning() whatever the file said, unless the write
\* fails, when the file keeps its content; the wait that follows does not
\* write the control file.
C38_ClientWrites ==
  [][client' # client
       => /\ pm'.status = pm.status
          /\ IF client.pc = "idle"
             THEN pm'.control = IF disk.writable THEN ClientTarget(client'.op)
                                ELSE pm.control
             ELSE pm'.control = pm.control]_vars

C38_Witness ==
  /\ client.op = "ensure" /\ client.pc = "poll" /\ calls = 2
  /\ disk.writable /\ pm.control = "running"
  /\ pm.status.state = "stopped"


====
